---- MODULE Spec2Model ----
(***************************************************************************)
(* Model of mcs.py: MonteCarloSimulator.                                   *)
(*                                                                         *)
(* A Python dict is an insertion-ordered sequence of [key, value] pairs.   *)
(* Numbers are integers: sums, products and the exact mean/variance of     *)
(* small integers are what the floating-point code computes exactly.       *)
(* numpy's generator is a nondeterministic choice over a small part of     *)
(* each family's support.                                                  *)
(***************************************************************************)
EXTENDS Integers, Sequences, FiniteSets, TLC

VARIABLES
    heap,               \* object store: reference -> dict (the bag objects)
    self_bov,           \* self.bov: a reference into heap
    transfer_equation,  \* self.transfer_equation (parsed form of the string)
    variable_pdfs,      \* self.variable_pdfs
    num_iterations,     \* self.num_iterations
    pc,                 \* position of the caller / of simulate()
    i,                  \* loop variable of simulate(): trials completed
    values,             \* the list `values` of simulate()
    result,             \* what simulate() returned
    calls,              \* number of simulate() calls made so far
    init_bag,           \* history: the dict as the caller supplied it
    entry_bag,          \* history: the dict when the current simulate() began
    refresh_ok,         \* history: return value of the last refresh_bov()
    log,                \* history: what the last refresh_bov() did, key by key
    n_refresh,          \* history: refresh_bov() calls in the current run
    n_eval              \* history: eval() calls in the current run

vars == <<heap, self_bov, transfer_equation, variable_pdfs, num_iterations,
          pc, i, values, result, calls, init_bag, entry_bag, refresh_ok, log,
          n_refresh, n_eval>>

\* ------------------------------------------------------------------ bounds
MaxIter == 3
MaxCalls == 2

\* ------------------------------------------------------------------ dicts
None == "None"
Builtins == "__builtins__"
BuiltinsModule == "<module builtins>"

DictKeySet(d) == {d[n].key : n \in 1..Len(d)}

DictHas(d, k) == \E n \in 1..Len(d) : d[n].key = k

DictGet(d, k) == d[CHOOSE n \in 1..Len(d) : d[n].key = k].value

DictSet(d, k, v) ==
    IF DictHas(d, k)
    THEN [n \in 1..Len(d) |-> IF d[n].key = k THEN [key |-> k, value |-> v] ELSE d[n]]
    ELSE Append(d, [key |-> k, value |-> v])

\* ------------------------------------------------------------------ numpy
\* What a call on self.rng can do: raise, or return one value.
Raised == [raised |-> TRUE, value |-> 0]

Returned(v) == [raised |-> FALSE, value |-> v]

\* Binding of a call's keyword arguments to a numpy method's parameter names:
\* a keyword that is no parameter of the method is a TypeError.
KeywordsBind(passed, parameters) == passed \subseteq parameters

\* pdf.get(k) on a distribution spec.
PdfGet(pdf, k) == IF k \in DOMAIN pdf THEN pdf[k] ELSE None

\* Generator.normal(loc, scale, size): scale < 0 is a ValueError; scale = 0
\* returns loc.
rng_normal(loc, scale) ==
    IF scale < 0 THEN {Raised}
    ELSE {Returned(loc - scale), Returned(loc), Returned(loc + scale)}

\* Generator.uniform(low, high, size): low + (high - low) * u, 0 <= u < 1.
rng_uniform(low, high) ==
    {Returned(low), Returned(low + ((high - low) \div 2))}

\* Generator.binomial(n, p, size): n < 0 or p outside [0, 1] is a ValueError.
rng_binomial(n, p) ==
    IF n < 0 \/ p < 0 \/ p > 1 THEN {Raised}
    ELSE IF p = 0 THEN {Returned(0)} ELSE {Returned(n)}

\* Generator.chisquare(df, size): df <= 0 is a ValueError.
rng_chisquare(df) ==
    IF df <= 0 THEN {Raised} ELSE {Returned(1), Returned(df)}

\* Generator.weibull(a, size): a < 0 is a ValueError.
rng_weibull(a) ==
    IF a < 0 THEN {Raised} ELSE {Returned(1), Returned(2)}

\* Generator.gamma(shape, scale, size): a negative argument is a ValueError.
rng_gamma(shape, scale) ==
    IF shape < 0 \/ scale < 0 THEN {Raised}
    ELSE {Returned(scale), Returned(shape * scale)}

\* Generator.lognormal(mean, sigma, size): sigma < 0 is a ValueError;
\* sigma = 0 returns exp(mean).
rng_lognormal(mean, sigma) ==
    IF sigma < 0 THEN {Raised}
    ELSE IF sigma = 0 /\ mean = 0 THEN {Returned(1)}
    ELSE {Returned(1), Returned(2)}

\* Generator.exponential(scale, size): scale < 0 is a ValueError.
rng_exponential(scale) ==
    IF scale < 0 THEN {Raised} ELSE {Returned(0), Returned(scale)}

\* Generator.pareto(a, size): a <= 0 is a ValueError.
rng_pareto(a) ==
    IF a <= 0 THEN {Raised} ELSE {Returned(0), Returned(1)}

\* Parameter names of Generator.wald(mean, scale, size).
WaldParameters == {"mean", "scale", "size"}

\* Parameter names of Generator.poisson(lam, size).
PoissonParameters == {"lam", "size"}

\* ------------------------------------------------------------------ samplers
\* Variant: mean and sd passed in each other's place.
random_sampler_normal_swapped(pdf) ==
    rng_normal(PdfGet(pdf, "sd"), PdfGet(pdf, "mean"))

\* self.rng.normal(loc=pdf.get("mean"), scale=pdf.get("sd"), size=size)
random_sampler_normal(pdf) == rng_normal(PdfGet(pdf, "mean"), PdfGet(pdf, "sd"))

\* self.rng.wald(loc=..., scale=..., size=size)
random_sampler_wald(pdf) ==
    IF ~KeywordsBind({"loc", "scale", "size"}, WaldParameters) THEN {Raised}
    ELSE {Returned(PdfGet(pdf, "mean"))}

\* self.rng.poisson(loc=..., size=size)
random_sampler_poisson(pdf) ==
    IF ~KeywordsBind({"loc", "size"}, PoissonParameters) THEN {Raised}
    ELSE {Returned(0), Returned(PdfGet(pdf, "lambda"))}

random_sampler_binomial(pdf) ==
    rng_binomial(PdfGet(pdf, "numtrials"), PdfGet(pdf, "probsuccess"))

random_sampler_uniform(pdf) == rng_uniform(PdfGet(pdf, "low"), PdfGet(pdf, "high"))

random_sampler_chisquare(pdf) == rng_chisquare(PdfGet(pdf, "degfreedom"))

random_sampler_weibull(pdf) == rng_weibull(PdfGet(pdf, "shape"))

random_sampler_gamma(pdf) == rng_gamma(PdfGet(pdf, "shape"), PdfGet(pdf, "scale"))

random_sampler_lognormal(pdf) == rng_lognormal(PdfGet(pdf, "mean"), PdfGet(pdf, "sigma"))

random_sampler_exponential(pdf) == rng_exponential(PdfGet(pdf, "scale"))

random_sampler_pareto(pdf) == rng_pareto(PdfGet(pdf, "shape"))

\* The keys of self.samplers.
samplers ==
    {"normal", "poisson", "binomial", "lognormal", "pareto", "exponential",
     "gamma", "weibull", "chisquare", "uniform", "wald"}

\* self.samplers[distribution](pdf, size=None)
CallSampler(distribution, pdf) ==
    CASE distribution = "normal" -> random_sampler_normal(pdf)
      [] distribution = "poisson" -> random_sampler_poisson(pdf)
      [] distribution = "binomial" -> random_sampler_binomial(pdf)
      [] distribution = "lognormal" -> random_sampler_lognormal(pdf)
      [] distribution = "pareto" -> random_sampler_pareto(pdf)
      [] distribution = "exponential" -> random_sampler_exponential(pdf)
      [] distribution = "gamma" -> random_sampler_gamma(pdf)
      [] distribution = "weibull" -> random_sampler_weibull(pdf)
      [] distribution = "chisquare" -> random_sampler_chisquare(pdf)
      [] distribution = "uniform" -> random_sampler_uniform(pdf)
      [] distribution = "wald" -> random_sampler_wald(pdf)

\* get_random_sample(pdf): the set of things one call can do. `value` is the
\* return value; `degraded` records that it is the initial rand_sample = 0
\* left in place by the except branch; `raised` that the call raised instead
\* of returning (the except branch catches every Exception).
Sample(value, degraded, raised) ==
    [value |-> value, degraded |-> degraded, raised |-> raised]

\* Variant: get_random_sample() without its try/except.
get_random_sample_uncaught(pdf) ==
    LET distribution == PdfGet(pdf, "name")
    IN  IF distribution = None \/ distribution \notin samplers
        THEN {Sample(0, FALSE, TRUE)}
        ELSE {IF o.raised THEN Sample(0, FALSE, TRUE)
                          ELSE Sample(o.value, FALSE, FALSE)
              : o \in CallSampler(distribution, pdf)}

get_random_sample(pdf) ==
    LET distribution == PdfGet(pdf, "name")
    IN  IF distribution = None \/ distribution \notin samplers
        THEN {Sample(0, TRUE, FALSE)}
        ELSE {IF o.raised THEN Sample(0, TRUE, FALSE)
                          ELSE Sample(o.value, FALSE, FALSE)
              : o \in CallSampler(distribution, pdf)}

\* ------------------------------------------------------------------ refresh_bov
\* self.variable_pdfs is any object with a get method. `entries` are the keys
\* it has a distribution spec for; `raising` are the keys for which its get
\* raises (a mapping that computes or validates its entries on lookup).
EmptyPdf == [k \in {} |-> 0]

Lookup(raised, is_none, pdf) == [raised |-> raised, is_none |-> is_none, pdf |-> pdf]

\* Variant: self.variable_pdfs.get(key, {}), never None.
variable_pdfs_get_default(pdfs, key) ==
    IF key \in pdfs.raising THEN Lookup(TRUE, FALSE, EmptyPdf)
    ELSE IF key \in DOMAIN pdfs.entries THEN Lookup(FALSE, FALSE, pdfs.entries[key])
    ELSE Lookup(FALSE, FALSE, EmptyPdf)

\* self.variable_pdfs.get(key)
variable_pdfs_get(pdfs, key) ==
    IF key \in pdfs.raising THEN Lookup(TRUE, FALSE, EmptyPdf)
    ELSE IF key \in DOMAIN pdfs.entries THEN Lookup(FALSE, FALSE, pdfs.entries[key])
    ELSE Lookup(FALSE, TRUE, EmptyPdf)

\* The keys of the bag for which get() returns a distribution spec.
Covered(bov, pdfs) ==
    {k \in DictKeySet(bov) :
        ~variable_pdfs_get(pdfs, k).raised /\ ~variable_pdfs_get(pdfs, k).is_none}

\* One get_random_sample() outcome for every covered key of the bag.
Choices(bov, pdfs) ==
    LET covered == Covered(bov, pdfs)
        all == UNION {get_random_sample(variable_pdfs_get(pdfs, k).pdf) : k \in covered}
    IN  {c \in [covered -> all] :
            \A k \in covered : c[k] \in get_random_sample(variable_pdfs_get(pdfs, k).pdf)}

LogEntry(key, what, value) == [key |-> key, what |-> what, value |-> value]

\* The loop of refresh_bov() from the j-th key of self.bov.keys() on, with the
\* outcomes `choice` of the get_random_sample() calls. Returns the dict, the
\* return value and the history of the call.
RECURSIVE RefreshFrom(_, _, _, _, _)
RefreshFrom(bov, pdfs, j, choice, lg) ==
    IF j > Len(bov)
    THEN [bov |-> bov, ok |-> TRUE, log |-> lg]
    ELSE LET key == bov[j].key
             pdf == variable_pdfs_get(pdfs, key)
         IN  IF pdf.raised
             THEN [bov |-> bov, ok |-> FALSE,
                   log |-> Append(lg, LogEntry(key, "lookup raised", 0))]
             ELSE IF pdf.is_none
             THEN RefreshFrom(bov, pdfs, j + 1, choice,
                              Append(lg, LogEntry(key, "skipped", 0)))
             ELSE LET rand_sample == choice[key]
                  IN  IF rand_sample.raised
                      THEN [bov |-> bov, ok |-> FALSE,
                            log |-> Append(lg, LogEntry(key, "sample raised", 0))]
                      ELSE RefreshFrom(DictSet(bov, key, rand_sample.value), pdfs,
                                       j + 1, choice,
                                       Append(lg, LogEntry(key,
                                           IF rand_sample.degraded THEN "degraded"
                                                                   ELSE "sampled",
                                           rand_sample.value)))

\* Variant: a failed refresh restores the dict it started from.
refresh_bov_atomic(bov, pdfs, choice) ==
    LET r == RefreshFrom(bov, pdfs, 1, choice, <<>>)
    IN  IF r.ok THEN r ELSE [r EXCEPT !.bov = bov]

refresh_bov(bov, pdfs, choice) == RefreshFrom(bov, pdfs, 1, choice, <<>>)

\* ------------------------------------------------------------------ eval
\* eval(expression, globals) first inserts the builtins module under the key
\* __builtins__ when the globals dict has no such key.
EvalGlobals(globals) ==
    IF DictHas(globals, Builtins) THEN globals
    ELSE DictSet(globals, Builtins, BuiltinsModule)

Name(n) == [op |-> "name", id |-> n]

BinOp(l, o, r) == [op |-> o, left |-> l, right |-> r]

EvalError == [ok |-> FALSE, value |-> 0]

\* The value of the parsed expression with the dict as its global names: a
\* name that is no key of the dict is a NameError.
RECURSIVE Evaluate(_, _)
Evaluate(expr, globals) ==
    IF expr.op = "name"
    THEN IF DictHas(globals, expr.id)
         THEN [ok |-> TRUE, value |-> DictGet(globals, expr.id)]
         ELSE EvalError
    ELSE LET l == Evaluate(expr.left, globals)
             r == Evaluate(expr.right, globals)
         IN  IF ~l.ok \/ ~r.ok THEN EvalError
             ELSE [ok |-> TRUE,
                   value |-> IF expr.op = "+" THEN l.value + r.value
                                              ELSE l.value * r.value]

\* ------------------------------------------------------------------ numpy mean, std
RECURSIVE Sum(_)
Sum(s) == IF s = <<>> THEN 0 ELSE Head(s) + Sum(Tail(s))

RECURSIVE Gcd(_, _)
Gcd(a, b) == IF b = 0 THEN a ELSE Gcd(b, a % b)

Abs(x) == IF x < 0 THEN -x ELSE x

NaN == [nan |-> TRUE, num |-> 0, den |-> 1]

\* The quotient n / d as a fraction in lowest terms; 0 / 0 is nan.
Frac(n, d) ==
    IF d = 0 THEN NaN
    ELSE LET g == Gcd(Abs(n), Abs(d))
         IN  [nan |-> FALSE, num |-> n \div g, den |-> d \div g]

\* ndarray.mean(): the sum over the count.
np_mean(vs) == Frac(Sum(vs), Len(vs))

\* ndarray.var(ddof): the sum of the squared deviations from the mean over
\* (count - ddof). With n = Len(vs) and S = Sum(vs) a deviation is
\* (vs[k] * n - S) / n.
np_var(vs, ddof) ==
    LET n == Len(vs)
        S == Sum(vs)
        sq == [k \in 1..n |-> (vs[k] * n - S) * (vs[k] * n - S)]
    IN  IF n = 0 THEN NaN ELSE Frac(Sum(sq), n * n * (n - ddof))

\* The non-negative square root of a fraction, kept as its radicand.
Sqrt(q) == [nan |-> q.nan, radicand |-> <<q.num, q.den>>]

\* Variant: the sample standard deviation, ddof = 1.
np_std_sample(vs) == Sqrt(np_var(vs, 1))

\* ndarray.std(): ddof defaults to 0.
np_std(vs) == Sqrt(np_var(vs, 0))

IsZero(sd) == ~sd.nan /\ sd.radicand[1] = 0

IsNumber(m, v) == ~m.nan /\ m.num = v * m.den

\* ------------------------------------------------------------------ inputs
Names == {"a", "b"}

Item(k, v) == [key |-> k, value |-> v]

\* bag_of_variables
Bags ==
    {<<Item("a", 0), Item("b", 0)>>,
     <<Item("b", 2), Item("a", 5)>>,
     <<Item("a", 3)>>}

\* transfer_equation: "a", "a + b", "a * b"
Formulas ==
    {Name("a"),
     BinOp(Name("a"), "+", Name("b")),
     BinOp(Name("a"), "*", Name("b"))}

\* Distribution specs with every parameter their family requires.
ValidPdfs ==
    {[name |-> "normal", mean |-> 10, sd |-> 0],
     [name |-> "normal", mean |-> 2, sd |-> 1],
     [name |-> "uniform", low |-> 5, high |-> 5],
     [name |-> "uniform", low |-> 0, high |-> 2],
     [name |-> "wald", mean |-> 3, scale |-> 1],
     [name |-> "poisson", lambda |-> 3],
     [name |-> "binomial", numtrials |-> 2, probsuccess |-> 1],
     [name |-> "chisquare", degfreedom |-> 2],
     [name |-> "weibull", shape |-> 1],
     [name |-> "gamma", shape |-> 2, scale |-> 2],
     [name |-> "lognormal", mean |-> 0, sigma |-> 0],
     [name |-> "exponential", scale |-> 1],
     [name |-> "pareto", shape |-> 3]}

\* A parameter value the family rejects, an unregistered family, no family.
BadPdfs ==
    {[name |-> "normal", mean |-> 1, sd |-> -1],
     [name |-> "cauchy", mean |-> 1],
     [mean |-> 1, sd |-> 1]}

PdfsOfA == ValidPdfs \cup BadPdfs

PdfsOfB ==
    {[name |-> "uniform", low |-> 5, high |-> 5],
     [name |-> "uniform", low |-> 0, high |-> 2],
     [name |-> "cauchy", mean |-> 1]}

\* variable_pdfs: per key a spec, no entry, or a lookup that raises.
Entry(kind, pdf) == [kind |-> kind, pdf |-> pdf]

EntriesOfA ==
    {Entry("spec", p) : p \in PdfsOfA}
        \cup {Entry("none", EmptyPdf), Entry("raises", EmptyPdf)}

EntriesOfB ==
    {Entry("spec", p) : p \in PdfsOfB}
        \cup {Entry("none", EmptyPdf), Entry("raises", EmptyPdf)}

Table(ea, eb) ==
    LET e(n) == IF n = "a" THEN ea ELSE eb
    IN  [entries |-> [k \in {n \in Names : e(n).kind = "spec"} |-> e(k).pdf],
         raising |-> {n \in Names : e(n).kind = "raises"}]

Tables == {Table(ea, eb) : ea \in EntriesOfA, eb \in EntriesOfB}

\* ------------------------------------------------------------------ __init__
CallerRef == "caller's dict"

CopyRef == "copy of caller's dict"

\* Variant: self.bov = dict(bag_of_variables).
BovRefCopy(bag_of_variables) == CopyRef

\* self.bov = bag_of_variables: the reference, not a copy.
BovRef(bag_of_variables) == bag_of_variables

NoResult == <<>>

Init ==
    \E bag \in Bags, pdfs \in Tables, f \in Formulas, n \in 0..MaxIter :
        /\ heap = [r \in {CallerRef, BovRef(CallerRef)} |-> bag]
        /\ self_bov = BovRef(CallerRef)
        /\ transfer_equation = f
        /\ variable_pdfs = pdfs
        /\ num_iterations = n
        /\ pc = "idle"
        /\ i = 0
        /\ values = <<>>
        /\ result = NoResult
        /\ calls = 0
        /\ init_bag = bag
        /\ entry_bag = bag
        /\ refresh_ok = TRUE
        /\ log = <<>>
        /\ n_refresh = 0
        /\ n_eval = 0

\* ------------------------------------------------------------------ simulate
config == <<transfer_equation, variable_pdfs, num_iterations, self_bov, init_bag>>

\* The caller calls simulate(): values = [] and the loop starts.
SimulateCall ==
    /\ pc \in {"idle", "returned", "raised"}
    /\ calls < MaxCalls
    /\ calls' = calls + 1
    /\ values' = <<>>
    /\ i' = 0
    /\ result' = NoResult
    /\ entry_bag' = heap[self_bov]
    /\ refresh_ok' = TRUE
    /\ log' = <<>>
    /\ n_refresh' = 0
    /\ n_eval' = 0
    /\ pc' = "loop"
    /\ UNCHANGED <<heap, config>>

\* for i in range(self.num_iterations)
RangeHasNext(k, n) == k < n

LoopTest ==
    /\ pc = "loop"
    /\ pc' = IF RangeHasNext(i, num_iterations) THEN "refresh" ELSE "aggregate"
    /\ UNCHANGED <<heap, config, i, values, result, calls, entry_bag,
                   refresh_ok, log, n_refresh, n_eval>>

\* Variant: a failed refresh ends the loop.
AfterRefreshChecked(ok) == IF ok THEN "eval" ELSE "aggregate"

\* self.refresh_bov(): simulate() drops the return value.
AfterRefresh(ok) == "eval"

Refresh ==
    /\ pc = "refresh"
    /\ \E choice \in Choices(heap[self_bov], variable_pdfs) :
          LET r == refresh_bov(heap[self_bov], variable_pdfs, choice)
          IN  /\ heap' = [heap EXCEPT ![self_bov] = r.bov]
              /\ refresh_ok' = r.ok
              /\ log' = r.log
              /\ pc' = AfterRefresh(r.ok)
    /\ n_refresh' = n_refresh + 1
    /\ UNCHANGED <<config, i, values, result, calls, entry_bag, n_eval>>

\* Variant: a failed eval() is caught and the trial skipped.
AfterEvalErrorSkip == "loop"

\* An exception of eval() leaves simulate(): nothing in simulate() catches it.
AfterEvalError == "raised"

\* te_result = eval(self.transfer_equation, self.bov); values.append(te_result)
Eval ==
    /\ pc = "eval"
    /\ LET globals == EvalGlobals(heap[self_bov])
           te_result == Evaluate(transfer_equation, globals)
       IN  /\ heap' = [heap EXCEPT ![self_bov] = globals]
           /\ IF te_result.ok
              THEN /\ values' = Append(values, te_result.value)
                   /\ i' = i + 1
                   /\ pc' = "loop"
              ELSE /\ values' = values
                   /\ i' = i
                   /\ pc' = AfterEvalError
    /\ n_eval' = n_eval + 1
    /\ UNCHANGED <<config, result, calls, entry_bag, refresh_ok, log, n_refresh>>

\* values_np.mean(), values_np.std(), return {"mean": ..., "sd": ...}
Aggregate ==
    /\ pc = "aggregate"
    /\ result' = <<[mean |-> np_mean(values), sd |-> np_std(values)]>>
    /\ pc' = "returned"
    /\ UNCHANGED <<heap, config, i, values, calls, entry_bag, refresh_ok, log,
                   n_refresh, n_eval>>

Next == SimulateCall \/ LoopTest \/ Refresh \/ Eval \/ Aggregate

Spec == Init /\ [][Next]_vars

\* ------------------------------------------------------------------ claims
Bov == heap[self_bov]

\* C1: a simulate() call with num_iterations = N >= 1 whose formula never
\* fails makes exactly N trials, each one refresh_bov() followed by one
\* eval(), and collects N results; a refresh_bov() that returned False is
\* followed by its eval() like any other.
C1_ExactlyNTrials ==
    /\ (pc = "eval") => (n_refresh = n_eval + 1 /\ Len(values) = n_eval)
    /\ (pc \in {"loop", "refresh", "aggregate", "returned"}) =>
           (n_refresh = n_eval /\ Len(values) = n_eval /\ i = n_eval)
    /\ (pc = "refresh") => i < num_iterations
    /\ (pc \in {"aggregate", "returned"} /\ num_iterations >= 1) =>
           (n_refresh = num_iterations /\ n_eval = num_iterations
            /\ Len(values) = num_iterations)

C1_Witness ==
    /\ pc = "returned"
    /\ num_iterations >= 2
    /\ ~refresh_ok
    /\ Len(values) = num_iterations

\* The key has no spec in variable_pdfs.
NoEntry(k) == k \notin DOMAIN variable_pdfs.entries

\* C2: refresh_bov() leaves the value of every bag key without an entry in
\* variable_pdfs unchanged, so the key keeps the value the caller supplied
\* through every iteration; with an empty variable_pdfs refresh_bov() returns
\* True and leaves the whole bag unchanged.
C2_UncoveredUnchanged ==
    /\ [](\A k \in DictKeySet(init_bag) :
            NoEntry(k) => DictGet(Bov, k) = DictGet(init_bag, k))
    /\ [][pc = "refresh" =>
            /\ \A k \in DictKeySet(init_bag) :
                  NoEntry(k) => DictGet(heap'[self_bov], k) = DictGet(Bov, k)
            /\ (DOMAIN variable_pdfs.entries = {} /\ variable_pdfs.raising = {}) =>
                  (refresh_ok' /\ heap' = heap)]_vars

C2_Witness ==
    /\ pc = "returned"
    /\ num_iterations >= 2
    /\ NoEntry("a") /\ ~NoEntry("b")
    /\ DictHas(init_bag, "b")
    /\ DictGet(init_bag, "a") = 5 /\ DictGet(Bov, "a") = 5
    /\ DictGet(Bov, "b") # DictGet(init_bag, "b")

\* C3 as stated: every exception raised while resolving or sampling a
\* variable in refresh_bov() (a lookup that raises, or a sampling failure,
\* which get_random_sample() turns into the degraded 0) ends that refresh at
\* that key with the return value False.
C3_AnyExceptionAborts ==
    (pc = "eval") =>
        \A n \in 1..Len(log) :
            log[n].what \in {"lookup raised", "sample raised", "degraded"} =>
                (~refresh_ok /\ n = Len(log))

\* C3 amended: an exception raised by the lookup of a key's spec in
\* variable_pdfs ends that refresh_bov() call at that key with the return
\* value False, the keys from there on keep their values and the values
\* written for earlier keys stay; an exception raised inside
\* get_random_sample() never reaches refresh_bov(): the key is set to 0, the
\* refresh goes on with the next key, and refresh_bov() returns False only
\* when a lookup raised.
C3_LookupAbortsSamplingDoesNot ==
    [][pc = "refresh" =>
        LET before == Bov
            after == heap'[self_bov]
            lg == log'
        IN  /\ Len(after) = Len(before)
            /\ Len(lg) <= Len(before)
            /\ refresh_ok' = (lg = <<>> \/ lg[Len(lg)].what # "lookup raised")
            /\ \A n \in 1..Len(lg) :
                  /\ lg[n].key = before[n].key
                  /\ lg[n].what # "sample raised"
                  /\ (lg[n].what = "lookup raised") => (n = Len(lg))
                  /\ (lg[n].what \in {"sampled", "degraded"}) =>
                         (after[n].value = lg[n].value)
                  /\ (lg[n].what = "degraded") => (lg[n].value = 0)
                  /\ (lg[n].what = "skipped") => (after[n] = before[n])
            /\ refresh_ok' => (Len(lg) = Len(before))
            /\ (~refresh_ok') =>
                  \A j \in Len(lg)..Len(before) : after[j] = before[j]]_vars

C3_Witness ==
    /\ pc = "eval"
    /\ ~refresh_ok
    /\ Len(log) = 2
    /\ log[1].what = "sampled"
    /\ log[1].value # DictGet(init_bag, log[1].key)
    /\ DictGet(Bov, log[1].key) = log[1].value
    /\ log[2].what = "lookup raised"

\* The spec has no family name, or one that is no key of self.samplers.
UnknownFamily(pdf) ==
    PdfGet(pdf, "name") = None \/ PdfGet(pdf, "name") \notin samplers

HasUnknownFamily(k) ==
    k \in DOMAIN variable_pdfs.entries /\ UnknownFamily(variable_pdfs.entries[k])

\* C4: for a spec whose family name is missing or not registered,
\* get_random_sample() does not raise: it returns 0, refresh_bov() writes 0
\* to the key and goes on to the next key, and the run makes all its
\* iterations.
C4_UnknownFamilyIsZero ==
    /\ (pc = "eval") =>
          \A n \in 1..Len(log) :
              HasUnknownFamily(log[n].key) =>
                  /\ log[n].what = "degraded"
                  /\ log[n].value = 0
                  /\ DictGet(Bov, log[n].key) = 0
                  /\ (n < Len(Bov)) => (Len(log) > n)
    /\ (pc = "returned" /\ \E k \in DictKeySet(init_bag) : HasUnknownFamily(k)) =>
          (n_refresh = num_iterations /\ Len(values) = num_iterations)

C4_Witness ==
    /\ pc = "eval"
    /\ n_refresh >= 2
    /\ Len(log) >= 2
    /\ HasUnknownFamily(log[1].key)
    /\ DictGet(init_bag, log[1].key) # 0
    /\ DictGet(Bov, log[1].key) = 0
    /\ log[2].what = "sampled"

\* C5: in every state of a simulate() run the key set of the bag is the key
\* set the caller supplied.
C5_KeySetFixed == DictKeySet(Bov) = DictKeySet(init_bag)

\* The mandatory keys of each family's spec, as the samplers' docstrings give them.
RequiredParameters(name) ==
    CASE name = "normal" -> {"mean", "sd"}
      [] name = "wald" -> {"mean", "scale"}
      [] name = "poisson" -> {"lambda"}
      [] name = "binomial" -> {"numtrials", "probsuccess"}
      [] name = "uniform" -> {"low", "high"}
      [] name = "chisquare" -> {"degfreedom"}
      [] name = "weibull" -> {"shape"}
      [] name = "gamma" -> {"shape", "scale"}
      [] name = "lognormal" -> {"mean", "sigma"}
      [] name = "exponential" -> {"scale"}
      [] name = "pareto" -> {"shape"}

\* A registered family with all its parameters, each in the family's domain.
WellFormed(pdf) ==
    /\ ~UnknownFamily(pdf)
    /\ RequiredParameters(pdf.name) \subseteq DOMAIN pdf
    /\ \A q \in RequiredParameters(pdf.name) : pdf[q] >= 0
    /\ pdf.name \in {"wald", "chisquare", "pareto"} =>
           \A q \in RequiredParameters(pdf.name) : pdf[q] > 0

\* C6: a key whose spec names one of the eleven families and supplies all of
\* that family's required parameters with valid values is overwritten by
\* refresh_bov() with a value the family's sampler returned, never with the
\* degraded 0 of get_random_sample()'s except branch.
C6_EveryFamilySamples ==
    (pc = "eval") =>
        \A n \in 1..Len(log) :
            (/\ log[n].key \in DOMAIN variable_pdfs.entries
             /\ WellFormed(variable_pdfs.entries[log[n].key])) =>
                log[n].what = "sampled"

\* eval() of the formula on the bag as it stands raises.
EvalFails == ~Evaluate(transfer_equation, EvalGlobals(Bov)).ok

\* C7: when eval() fails in an iteration of simulate(), simulate() ends there
\* with the exception: the result of that trial is not collected, no later
\* iteration of the run is made and no {mean, sd} is returned.
C7_EvalFailureIsFatal ==
    /\ [](pc = "raised" => (result = NoResult /\ n_eval = Len(values) + 1))
    /\ [][/\ (pc = "eval" /\ EvalFails) =>
                 (pc' = "raised" /\ values' = values /\ result' = NoResult)
          /\ (pc = "raised") => (pc' = "loop" /\ calls' = calls + 1)]_vars

C7_Witness ==
    /\ pc = "raised"
    /\ num_iterations >= 2
    /\ n_eval = 1
    /\ ~DictHas(Bov, "b")

\* A distribution with a single value.
Degenerate(pdf) ==
    \/ PdfGet(pdf, "name") = "normal" /\ PdfGet(pdf, "sd") = 0
    \/ PdfGet(pdf, "name") = "uniform" /\ PdfGet(pdf, "low") = PdfGet(pdf, "high")

Constant(pdf) == IF pdf.name = "normal" THEN pdf.mean ELSE pdf.low

AllDegenerate ==
    /\ variable_pdfs.raising = {}
    /\ \A k \in DOMAIN variable_pdfs.entries : Degenerate(variable_pdfs.entries[k])

ConstantBag ==
    [n \in 1..Len(init_bag) |->
        IF init_bag[n].key \in DOMAIN variable_pdfs.entries
        THEN Item(init_bag[n].key, Constant(variable_pdfs.entries[init_bag[n].key]))
        ELSE init_bag[n]]

\* The formula at the constants of the degenerate specs.
Expected == Evaluate(transfer_equation, ConstantBag).value

C9_SingleTrial ==
    (pc = "returned" /\ num_iterations = 1) =>
        /\ Len(values) = 1
        /\ IsZero(result[1].sd)
        /\ IsNumber(result[1].mean, values[1])

C9_Witness ==
    /\ pc = "returned"
    /\ num_iterations = 1
    /\ values[1] > 0
    /\ IsNumber(result[1].mean, values[1])

\* C10: self.bov is the caller's dict itself: what refresh_bov() and eval()
\* write, the caller's dict holds; after simulate() returns it holds, for
\* every key with a spec in a plain-mapping variable_pdfs, the value sampled
\* in the last iteration; a second simulate() starts from that dict; and no
\* step changes variable_pdfs, transfer_equation or num_iterations.
C10_CallerBagIsTheBag ==
    /\ [](heap[CallerRef] = Bov)
    /\ []((pc = "returned" /\ num_iterations >= 1 /\ variable_pdfs.raising = {}) =>
            \A k \in Covered(init_bag, variable_pdfs) :
                \E n \in 1..Len(log) :
                    /\ log[n].key = k
                    /\ log[n].what \in {"sampled", "degraded"}
                    /\ DictGet(heap[CallerRef], k) = log[n].value)
    /\ [][/\ (pc \in {"returned", "raised"} /\ pc' = "loop") =>
                 (heap'[self_bov] = heap[CallerRef] /\ entry_bag' = heap[CallerRef])
          /\ variable_pdfs' = variable_pdfs
          /\ transfer_equation' = transfer_equation
          /\ num_iterations' = num_iterations]_vars

C10_Witness ==
    /\ pc = "returned"
    /\ calls = 2
    /\ entry_bag # init_bag
    /\ \E k \in Covered(init_bag, variable_pdfs) :
          /\ DictGet(heap[CallerRef], k) # DictGet(init_bag, k)
          /\ DictGet(heap[CallerRef], k) # DictGet(entry_bag, k)

====
